---- MODULE Spec2Model ----
(***************************************************************************)
(* Model of DXC_Analytics.py: one Streamlit script run (fetch, normalise,  *)
(* the four report sections) and the reruns caused by the user's widgets.  *)
(*                                                                         *)
(* Values.  A raw CheckInDate is a record [kind, month, day]: a parseable  *)
(* date string ("date"), JSON null ("null") or a string no date parser     *)
(* accepts ("bad").  pd.to_datetime turns it into a Timestamp ("ts") or    *)
(* NaT.  A month_year_str is a record [kind, ym]: 'YYYY-MM' ("ym") or the  *)
(* string 'NaT'.  A raw Hours is [kind, val]: a JSON number ("num"), a     *)
(* string holding a number ("numstr"), any other string ("str") or null.   *)
(* A float is [nan, val].  A mean is kept exact as [sum, n] (sum / n).     *)
(* Python's None is the string None below.  A groupby result is a function *)
(* from its group keys to the aggregated value.                            *)
(***************************************************************************)
EXTENDS Integers, Sequences, FiniteSets, TLC

VARIABLES
    db,                 \* rows of the live_dispatches table
    has_hours,          \* whether the table has a Hours column
    session_state,      \* st.session_state: 'selection' and the widgets' values
    pc,                 \* position of the script run
    error,              \* the exception that ended the run, or None
    rendered,           \* the sections and messages this run has put on the page
    event,              \* the interaction that started this run
    dispatches_df,
    breakdown_month_options, selected_breakdown_month, total_tickets,
    avg_time_to_close, tickets_per_site,
    monthly_data,
    avg_tickets_by_site, tickets_by_month,
    pie_month_options, selected_breakdown_month_pie, monthly_filtered_data,
    data_to_chart_subtype, selected_subtype_from_chart, subtype_options,
    initial_index, selected_subtype, filtered_by_subtype, site_breakdown

data == <<db, has_hours>>

outputs ==
    <<breakdown_month_options, selected_breakdown_month, total_tickets,
      avg_time_to_close, tickets_per_site, monthly_data, avg_tickets_by_site,
      tickets_by_month, pie_month_options, selected_breakdown_month_pie,
      monthly_filtered_data, data_to_chart_subtype, selected_subtype_from_chart,
      subtype_options, initial_index, selected_subtype, filtered_by_subtype,
      site_breakdown>>

vars ==
    <<db, has_hours, session_state, pc, error, rendered, event, dispatches_df,
      outputs>>

----------------------------------------------------------------------------
(* Bounds of the model *)

MaxRecords == 2

NumMonths == 3

Days == {1, 15}

Sites == {"A", "B"}

\* the subtype labels of the model, in the order sorted() gives them
Lexicographic == <<"X", "Y">>

Subtypes == {Lexicographic[i] : i \in 1..Len(Lexicographic)}

----------------------------------------------------------------------------
(* Values *)

None == "None"

Unset == "<unset>"

AllSubtypes == "All Subtypes"

NullDate == [kind |-> "null", month |-> 0, day |-> 0]

BadDate == [kind |-> "bad", month |-> 0, day |-> 0]

DateStr(m, d) == [kind |-> "date", month |-> m, day |-> d]

NaT == [kind |-> "NaT", month |-> 0, day |-> 0]

Timestamp(m, d) == [kind |-> "ts", month |-> m, day |-> d]

NaTStr == [kind |-> "NaT", ym |-> 0]

YearMonth(m) == [kind |-> "ym", ym |-> m]

AllTickets == [kind |-> "All Tickets", ym |-> 0]

UnsetMonth == [kind |-> Unset, ym |-> 0]

NaN == [nan |-> TRUE, val |-> 0]

Float(v) == [nan |-> FALSE, val |-> v]

NumHours(v) == [kind |-> "num", val |-> v]

NullHours == [kind |-> "null", val |-> 0]

----------------------------------------------------------------------------
(* Sequence and aggregation helpers *)

Range(s) == {s[i] : i \in 1..Len(s)}

RECURSIVE SumOver(_, _)
SumOver(f, S) ==
    IF S = {} THEN 0
    ELSE LET k == CHOOSE x \in S : TRUE IN f[k] + SumOver(f, S \ {k})

SumCounts(table) == SumOver(table, DOMAIN table)

NotNaT(ts) == ts.kind # "NaT"

\* Series.count(): the number of non-null values of column CheckInDate
CountCheckInDate(df) == Len(SelectSeq(df, LAMBDA r : NotNaT(r.CheckInDate)))

\* 'YYYY-MM' strings compare as their months do; 'N' sorts after every digit
StrLess(a, b) ==
    \/ a.kind = "ym" /\ b.kind = "NaT"
    \/ a.kind = "ym" /\ b.kind = "ym" /\ a.ym < b.ym

RECURSIVE SortedMonths(_)
SortedMonths(S) ==
    IF S = {} THEN << >>
    ELSE LET lo == CHOOSE x \in S : \A y \in S \ {x} : StrLess(x, y)
         IN  <<lo>> \o SortedMonths(S \ {lo})

Reverse(s) == [i \in 1..Len(s) |-> s[Len(s) + 1 - i]]

\* sorted(list of str), for the labels of the model
SortedStrs(S) == SelectSeq(Lexicographic, LAMBDA x : x \in S)

IndexOf(s, x) == CHOOSE i \in 1..Len(s) : s[i] = x

----------------------------------------------------------------------------
(* Normalisation (lines 32-41) *)

DfEmptyNever(df) == FALSE

\* DataFrame.empty
DfEmpty(df) == Len(df) = 0

\* dispatches_df['CheckInDate'] on pd.DataFrame([]), which has no column
NoColumn(df) == Len(df) = 0

\* pd.to_datetime(column) with the default errors='raise'
ToDatetimeRaises(df) == \E i \in 1..Len(df) : df[i].CheckInDate.kind = "bad"

ToDatetime(raw) ==
    IF raw.kind = "date" THEN Timestamp(raw.month, raw.day) ELSE NaT

\* dispatches_df.get('Hours', pd.Series([0] * len(dispatches_df)))
HoursColumn(df, present) ==
    [i \in 1..Len(df) |-> IF present THEN df[i].Hours ELSE NumHours(0)]

\* pd.to_numeric(value, errors='coerce')
ToNumericCoerce(h) ==
    IF h.kind \in {"num", "numstr"} THEN Float(h.val) ELSE NaN

FillNaKeep(x) == x

\* .fillna(0)
FillNa(x) == IF x.nan THEN Float(0) ELSE x

\* .dt.to_period('M').astype(str)
MonthYearStr(ts) == IF NotNaT(ts) THEN YearMonth(ts.month) ELSE NaTStr

Normalized(df, present) ==
    [i \in 1..Len(df) |->
        LET ts == ToDatetime(df[i].CheckInDate)
        IN  [CheckInDate    |-> ts,
             Hours          |-> FillNa(ToNumericCoerce(HoursColumn(df, present)[i])),
             Site           |-> df[i].Site,
             Subtype        |-> df[i].Subtype,
             Item           |-> df[i].Item,
             month_year_str |-> MonthYearStr(ts)]]

----------------------------------------------------------------------------
(* Aggregations *)

\* A widget's state: its value and the options and index it was built with
Widget(options, index, value) == [id |-> <<options, index>>, value |-> value]

\* st.selectbox: the value the widget holds while it is one of the options,
\* else the option at the given (0-based) index.  When the options or the
\* index differ from those the widget was built with, Streamlit keeps the
\* value (identity by key) or starts the widget anew (identity by
\* parameters), by version
Selectbox(options, index, widget) ==
    IF widget.value \notin Range(options) THEN {options[index + 1]}
    ELSE IF widget.id = <<options, index>> THEN {widget.value}
    ELSE {widget.value, options[index + 1]}

InMonth(df, month) == SelectSeq(df, LAMBDA r : r.month_year_str = month)

\* Series.mean() of column Hours, as sum / n (NaN when n = 0)
MeanHours(df) ==
    [sum |-> SumOver([i \in 1..Len(df) |-> df[i].Hours.val], 1..Len(df)),
     n   |-> Len(df)]

\* df.groupby('Site').agg(x=('CheckInDate', 'count')): rows with a null Site
\* belong to no group (dropna=True), count() skips NaT
GroupBySiteCount(df) ==
    [s \in {df[i].Site : i \in 1..Len(df)} \ {None} |->
        CountCheckInDate(SelectSeq(df, LAMBDA r : r.Site = s))]

\* df.groupby('Subtype').agg(count=('CheckInDate', 'count'))
GroupBySubtypeCount(df) ==
    [s \in {df[i].Subtype : i \in 1..Len(df)} \ {None} |->
        CountCheckInDate(SelectSeq(df, LAMBDA r : r.Subtype = s))]

\* df.groupby('month_year_str').agg(count=('CheckInDate', 'count'))
GroupByMonthCount(df) ==
    [m \in {df[i].month_year_str : i \in 1..Len(df)} |->
        CountCheckInDate(InMonth(df, m))]

\* df.groupby(['Site', 'month_year_str']).agg(count=('CheckInDate', 'count'))
GroupBySiteMonthCount(df) ==
    [k \in {<<df[i].Site, df[i].month_year_str>> : i \in 1..Len(df)}
             \ {<<None, df[i].month_year_str>> : i \in 1..Len(df)} |->
        CountCheckInDate(SelectSeq(df,
            LAMBDA r : r.Site = k[1] /\ r.month_year_str = k[2]))]

\* tickets_per_site_per_month.groupby('Site').agg(avg_tickets=('count', 'mean'))
MeanCountBySite(table) ==
    [s \in {k[1] : k \in DOMAIN table} |->
        LET keys == {k \in DOMAIN table : k[1] = s}
        IN  [sum |-> SumOver(table, keys), n |-> Cardinality(keys)]]

Dated(df) == SelectSeq(df, LAMBDA r : NotNaT(r.CheckInDate))

MonthsOf(df) == {df[i].CheckInDate.month : i \in 1..Len(df)}

MinMonth(df) == CHOOSE m \in MonthsOf(df) : \A k \in MonthsOf(df) : m <= k

MaxMonth(df) == CHOOSE m \in MonthsOf(df) : \A k \in MonthsOf(df) : k <= m

TrendRow(df, m) ==
    LET rows == SelectSeq(df, LAMBDA r : r.CheckInDate.month = m)
    IN  [month |-> m, total_tickets |-> Len(rows), avg_hours |-> MeanHours(rows)]

\* the months in the order the rows first show them
RECURSIVE FirstSeenMonths(_)
FirstSeenMonths(df) ==
    IF df = << >> THEN << >>
    ELSE LET m == Head(df).CheckInDate.month
         IN  <<m>> \o FirstSeenMonths(
                 SelectSeq(Tail(df), LAMBDA r : r.CheckInDate.month # m))

TrendFirstSeen(df) ==
    LET ms == FirstSeenMonths(Dated(df))
    IN  [i \in 1..Len(ms) |-> TrendRow(Dated(df), ms[i])]

TrendPresentOnly(df) ==
    LET ms == SortedMonths({YearMonth(m) : m \in MonthsOf(Dated(df))})
    IN  [i \in 1..Len(ms) |-> TrendRow(Dated(df), ms[i].ym)]

\* df.groupby(pd.Grouper(key='CheckInDate', freq='ME')).agg(...): NaT rows
\* belong to no bin; one bin per month end from the earliest to the latest
\* date, a bin without rows included
MonthlyTrend(df) ==
    LET d == Dated(df) IN
    IF d = << >> THEN << >>
    ELSE [i \in 1..(MaxMonth(d) - MinMonth(d) + 1) |->
             TrendRow(d, MinMonth(d) + i - 1)]

\* dispatches_df.dropna(subset=['Subtype', 'Item'])
DropNaSubtypeItem(df) ==
    SelectSeq(df, LAMBDA r : r.Subtype # None /\ r.Item # None)

\* selected_subtype_from_chart (lines 231-233)
SelectedFromChart(state) ==
    IF state.selection \notin {None, Unset} THEN state.selection ELSE None

\* initial_index (lines 239-241)
InitialIndex(from_chart, options) ==
    IF from_chart # None /\ from_chart \in Range(options)
    THEN IndexOf(options, from_chart) - 1
    ELSE 0

\* What rendering the pie chart leaves in st.session_state['selection'] when
\* the user clicks slice s: st.altair_chart is called without on_select and
\* without key, so the click reaches no session state
ChartSelectionStored(old, s) == s

ChartSelection(old, s) == old

----------------------------------------------------------------------------
(* The state after construction: a table, a fresh session and a blank page *)

Blank ==
    /\ dispatches_df = << >>
    /\ breakdown_month_options = << >>
    /\ selected_breakdown_month = UnsetMonth
    /\ total_tickets = 0
    /\ avg_time_to_close = [sum |-> 0, n |-> 0]
    /\ tickets_per_site = << >>
    /\ monthly_data = << >>
    /\ avg_tickets_by_site = << >>
    /\ tickets_by_month = << >>
    /\ pie_month_options = << >>
    /\ selected_breakdown_month_pie = UnsetMonth
    /\ monthly_filtered_data = << >>
    /\ data_to_chart_subtype = << >>
    /\ selected_subtype_from_chart = None
    /\ subtype_options = << >>
    /\ initial_index = 0
    /\ selected_subtype = Unset
    /\ filtered_by_subtype = << >>
    /\ site_breakdown = << >>

FreshSession ==
    [selection                |-> Unset,
     breakdown_month_selector |-> [id |-> << >>, value |-> UnsetMonth],
     pie_month_selector       |-> [id |-> << >>, value |-> UnsetMonth],
     subtype_select_box       |-> [id |-> << >>, value |-> Unset]]

Event(kind, slice, before) == [kind |-> kind, slice |-> slice, before |-> before]

AllDates == {NullDate} \cup {DateStr(m, d) : m \in 1..NumMonths, d \in Days}

RowsOf(dates, hours, sites, subtypes, items) ==
    [CheckInDate : dates, Hours : hours, Site : sites, Subtype : subtypes,
     Item : items]

Tables(rows) == UNION {[1..n -> rows] : n \in 0..MaxRecords}

InitWith(rows, hours_present) ==
    /\ db \in Tables(rows)
    /\ has_hours \in hours_present
    /\ session_state = FreshSession
    /\ pc = "start"
    /\ error = None
    /\ rendered = {}
    /\ event = Event("load", None, None)
    /\ Blank

\* tables whose dates and sites vary
Init ==
    InitWith(RowsOf(AllDates, {NumHours(2)}, Sites \cup {None}, {"X"}, {"I"}),
             {TRUE})

\* tables whose dates and hours vary, well-formed or not
InitNorm ==
    InitWith(RowsOf({NullDate, BadDate, DateStr(1, 1)},
                    {NumHours(-1), NumHours(0), NumHours(2),
                     [kind |-> "numstr", val |-> 3],
                     [kind |-> "str", val |-> 0], NullHours},
                    {"A"}, {"X"}, {"I"}),
             BOOLEAN)

\* tables whose subtypes, items, sites and months vary
InitPie ==
    InitWith(RowsOf({NullDate, DateStr(1, 1), DateStr(2, 1)}, {NumHours(2)},
                    {"A", None}, Subtypes \cup {None}, {"I", None}),
             {TRUE})

\* tables for the widget interactions
InitUI ==
    InitWith(RowsOf({DateStr(1, 1), DateStr(2, 1)}, {NumHours(2)}, {"A"},
                    Subtypes, {"I"}),
             {TRUE})

----------------------------------------------------------------------------
(* One script run *)

\* lines 15-17
InitSessionState ==
    /\ pc = "start"
    /\ session_state' =
           IF session_state.selection = Unset
           THEN [session_state EXCEPT !.selection = None]
           ELSE session_state
    /\ pc' = "session"
    /\ UNCHANGED <<data, event, error, rendered, dispatches_df, outputs>>

\* lines 20-30
FetchData ==
    /\ pc = "session"
    /\ dispatches_df' = db
    /\ pc' = "fetched"
    /\ UNCHANGED <<data, event, session_state, error, rendered, outputs>>

\* lines 285-286
Warn ==
    /\ pc = "fetched"
    /\ DfEmpty(dispatches_df)
    /\ rendered' = rendered \cup {"warning"}
    /\ pc' = "done"
    /\ UNCHANGED <<data, event, session_state, error, dispatches_df, outputs>>

\* lines 32-41
Normalize ==
    /\ pc = "fetched"
    /\ ~DfEmpty(dispatches_df)
    /\ IF NoColumn(dispatches_df) \/ ToDatetimeRaises(dispatches_df)
       THEN /\ pc' = "error"
            /\ error' = IF NoColumn(dispatches_df) THEN "KeyError"
                         ELSE "to_datetime"
            /\ UNCHANGED dispatches_df
       ELSE /\ pc' = "normalized"
            /\ dispatches_df' = Normalized(dispatches_df, has_hours)
            /\ UNCHANGED error
    /\ UNCHANGED <<data, event, session_state, rendered, outputs>>

\* lines 44-89
MonthlyBreakdown ==
    /\ pc = "normalized"
    /\ LET options == Reverse(SortedMonths(
                          {dispatches_df[i].month_year_str :
                              i \in 1..Len(dispatches_df)}))
       IN  \E month \in Selectbox(options, 0,
                                  session_state.breakdown_month_selector) :
             LET selected_breakdown_df == InMonth(dispatches_df, month)
             IN  /\ breakdown_month_options' = options
                 /\ selected_breakdown_month' = month
                 /\ session_state' =
                        [session_state EXCEPT !.breakdown_month_selector =
                                                  Widget(options, 0, month)]
                 /\ total_tickets' = Len(selected_breakdown_df)
                 /\ avg_time_to_close' = MeanHours(selected_breakdown_df)
                 /\ tickets_per_site' = GroupBySiteCount(selected_breakdown_df)
    /\ rendered' = rendered \cup {"breakdown"}
    /\ pc' = "breakdown"
    /\ UNCHANGED <<data, event, error, dispatches_df, monthly_data, avg_tickets_by_site,
                   tickets_by_month, pie_month_options,
                   selected_breakdown_month_pie, monthly_filtered_data,
                   data_to_chart_subtype, selected_subtype_from_chart,
                   subtype_options, initial_index, selected_subtype,
                   filtered_by_subtype, site_breakdown>>

\* lines 94-124.  With no dated row the grouper has no first and no last bin
\* edge: pandas either raises or returns no row, by version
MonthlyTrendAnalysis ==
    /\ pc = "breakdown"
    /\ \/ /\ monthly_data' = MonthlyTrend(dispatches_df)
          /\ rendered' = rendered \cup {"trend"}
          /\ pc' = "trend"
          /\ UNCHANGED error
       \/ /\ Dated(dispatches_df) = << >>
          /\ pc' = "error"
          /\ error' = "Grouper"
          /\ UNCHANGED <<monthly_data, rendered>>
    /\ UNCHANGED <<data, event, session_state, dispatches_df, breakdown_month_options,
                   selected_breakdown_month, total_tickets, avg_time_to_close,
                   tickets_per_site, avg_tickets_by_site, tickets_by_month,
                   pie_month_options, selected_breakdown_month_pie,
                   monthly_filtered_data, data_to_chart_subtype,
                   selected_subtype_from_chart, subtype_options, initial_index,
                   selected_subtype, filtered_by_subtype, site_breakdown>>

\* lines 129-178
AverageTicketCount ==
    /\ pc = "trend"
    /\ avg_tickets_by_site' =
           MeanCountBySite(GroupBySiteMonthCount(dispatches_df))
    /\ tickets_by_month' = GroupByMonthCount(dispatches_df)
    /\ rendered' = rendered \cup {"average"}
    /\ pc' = "average"
    /\ UNCHANGED <<data, event, session_state, error, dispatches_df,
                   breakdown_month_options, selected_breakdown_month,
                   total_tickets, avg_time_to_close, tickets_per_site,
                   monthly_data, pie_month_options,
                   selected_breakdown_month_pie, monthly_filtered_data,
                   data_to_chart_subtype, selected_subtype_from_chart,
                   subtype_options, initial_index, selected_subtype,
                   filtered_by_subtype, site_breakdown>>

\* lines 183-249
SubtypePie ==
    /\ pc = "average"
    /\ LET filtered_tickets == DropNaSubtypeItem(dispatches_df)
           options == <<AllTickets>> \o SortedMonths(
                          {filtered_tickets[i].month_year_str :
                              i \in 1..Len(filtered_tickets)})
       IN  \E month \in Selectbox(options, 0, session_state.pie_month_selector) :
             LET filtered == IF month # AllTickets
                             THEN InMonth(filtered_tickets, month)
                             ELSE filtered_tickets
                 chart == GroupBySubtypeCount(filtered)
                 from_chart == SelectedFromChart(session_state)
                 subtypes == <<AllSubtypes>> \o SortedStrs(DOMAIN chart)
                 index == InitialIndex(from_chart, subtypes)
             IN  \E subtype \in Selectbox(subtypes, index,
                                          session_state.subtype_select_box) :
                   /\ pie_month_options' = options
                   /\ selected_breakdown_month_pie' = month
                   /\ monthly_filtered_data' = filtered
                   /\ data_to_chart_subtype' = chart
                   /\ selected_subtype_from_chart' = from_chart
                   /\ subtype_options' = subtypes
                   /\ initial_index' = index
                   /\ selected_subtype' = subtype
                   /\ session_state' =
                          [session_state EXCEPT
                              !.pie_month_selector = Widget(options, 0, month),
                              !.subtype_select_box =
                                  Widget(subtypes, index, subtype)]
    /\ rendered' = rendered \cup {"pie"}
    /\ pc' = "pie"
    /\ UNCHANGED <<data, event, error, dispatches_df, breakdown_month_options,
                   selected_breakdown_month, total_tickets, avg_time_to_close,
                   tickets_per_site, monthly_data, avg_tickets_by_site,
                   tickets_by_month, filtered_by_subtype, site_breakdown>>

\* lines 253-283
SiteBreakdown ==
    /\ pc = "pie"
    /\ IF selected_subtype # AllSubtypes
       THEN LET rows == SelectSeq(monthly_filtered_data,
                                  LAMBDA r : r.Subtype = selected_subtype)
            IN  /\ filtered_by_subtype' = rows
                /\ IF ~DfEmpty(rows)
                   THEN /\ site_breakdown' = GroupBySiteCount(rows)
                        /\ rendered' = rendered \cup {"site_breakdown"}
                   ELSE /\ rendered' = rendered \cup {"info_no_site_data"}
                        /\ UNCHANGED site_breakdown
       ELSE /\ rendered' = rendered \cup {"info_select_subtype"}
            /\ UNCHANGED <<filtered_by_subtype, site_breakdown>>
    /\ pc' = "done"
    /\ UNCHANGED <<data, event, session_state, error, dispatches_df,
                   breakdown_month_options, selected_breakdown_month,
                   total_tickets, avg_time_to_close, tickets_per_site,
                   monthly_data, avg_tickets_by_site, tickets_by_month,
                   pie_month_options, selected_breakdown_month_pie,
                   monthly_filtered_data, data_to_chart_subtype,
                   selected_subtype_from_chart, subtype_options, initial_index,
                   selected_subtype>>

----------------------------------------------------------------------------
(* The user's interactions: each reruns the script on a blank page *)

Rerun ==
    /\ pc' = "start"
    /\ error' = None
    /\ rendered' = {}
    /\ dispatches_df' = << >>
    /\ breakdown_month_options' = << >>
    /\ selected_breakdown_month' = UnsetMonth
    /\ total_tickets' = 0
    /\ avg_time_to_close' = [sum |-> 0, n |-> 0]
    /\ tickets_per_site' = << >>
    /\ monthly_data' = << >>
    /\ avg_tickets_by_site' = << >>
    /\ tickets_by_month' = << >>
    /\ pie_month_options' = << >>
    /\ selected_breakdown_month_pie' = UnsetMonth
    /\ monthly_filtered_data' = << >>
    /\ data_to_chart_subtype' = << >>
    /\ selected_subtype_from_chart' = None
    /\ subtype_options' = << >>
    /\ initial_index' = 0
    /\ selected_subtype' = Unset
    /\ filtered_by_subtype' = << >>
    /\ site_breakdown' = << >>
    /\ UNCHANGED data

\* the selectbox of line 47
SelectBreakdownMonth ==
    /\ pc = "done"
    /\ \E m \in Range(breakdown_month_options) :
          /\ m # selected_breakdown_month
          /\ session_state' =
                 [session_state EXCEPT !.breakdown_month_selector.value = m]
    /\ event' = Event("breakdown_month", None, None)
    /\ Rerun

\* the selectbox of line 191
SelectPieMonth ==
    /\ pc = "done"
    /\ \E m \in Range(pie_month_options) :
          /\ m # selected_breakdown_month_pie
          /\ session_state' =
                 [session_state EXCEPT !.pie_month_selector.value = m]
    /\ event' = Event("pie_month", None, None)
    /\ Rerun

\* the selectbox of lines 244-249
SelectSubtype ==
    /\ pc = "done"
    /\ \E s \in Range(subtype_options) :
          /\ s # selected_subtype
          /\ session_state' =
                 [session_state EXCEPT !.subtype_select_box.value = s]
    /\ event' = Event("subtype", None, None)
    /\ Rerun

\* a click on a slice of the pie chart of lines 206-228
ClickPieSlice ==
    /\ pc = "done"
    /\ \E s \in DOMAIN data_to_chart_subtype :
          /\ session_state' =
                 [session_state EXCEPT !.selection = ChartSelection(@, s)]
          /\ event' = Event("click", s, selected_subtype)
    /\ Rerun

Run ==
    \/ InitSessionState
    \/ FetchData
    \/ Warn
    \/ Normalize
    \/ MonthlyBreakdown
    \/ MonthlyTrendAnalysis
    \/ AverageTicketCount
    \/ SubtypePie
    \/ SiteBreakdown

Next == Run \/ SelectBreakdownMonth

NextPie == Run \/ SelectPieMonth \/ SelectSubtype

NextUI ==
    Run \/ SelectBreakdownMonth \/ SelectPieMonth \/ SelectSubtype \/ ClickPieSlice

Spec == Init /\ [][Next]_vars

SpecNorm == InitNorm /\ [][Next]_vars

SpecPie == InitPie /\ [][NextPie]_vars

SpecUI == InitUI /\ [][NextUI]_vars

----------------------------------------------------------------------------
(* Properties *)

\* what the table's rows are before any parsing
RawMonthStr(row) == MonthYearStr(ToDatetime(row.CheckInDate))

RawDated == SelectSeq(db, LAMBDA r : r.CheckInDate.kind = "date")

RawMonths == {RawDated[i].CheckInDate.month : i \in 1..Len(RawDated)}

HasNullDate == \E i \in 1..Len(db) : db[i].CheckInDate.kind = "null"

HasNullSite == \E i \in 1..Len(db) : db[i].Site = None

IsNormalized ==
    /\ db # << >>
    /\ pc \notin {"start", "session", "fetched"}
    /\ error # "to_datetime"

\* C1: for every month the Monthly Breakdown selector offers, the per-site
\* ticket counts of the selected month sum to the month's Total Tickets.
C1_SiteCountsSumToTotal ==
    "breakdown" \in rendered => SumCounts(tickets_per_site) = total_tickets

\* C1, where it does hold: tables with no null Site and no null CheckInDate.
C1_HoldsWithoutNulls ==
    ("breakdown" \in rendered /\ ~HasNullDate /\ ~HasNullSite)
        => SumCounts(tickets_per_site) = total_tickets

\* C2 as stated: after normalisation every record's Hours is a number >= 0.
C2_HoursNonNegative ==
    IsNormalized =>
        \A i \in 1..Len(dispatches_df) :
            ~dispatches_df[i].Hours.nan /\ dispatches_df[i].Hours.val >= 0

\* C2 as amended: after normalisation Hours is a number, never NaN; it is
\* exactly 0 when the column is absent or the value is null or a non-numeric
\* string, and it is the input number unchanged otherwise, so it is >= 0
\* exactly when the input number is not negative.
C2_HoursCoerced ==
    IsNormalized =>
        \A i \in 1..Len(dispatches_df) :
            LET raw == db[i].Hours
                h == dispatches_df[i].Hours
            IN  /\ ~h.nan
                /\ IF has_hours /\ raw.kind \in {"num", "numstr"}
                   THEN h.val = raw.val
                   ELSE h.val = 0
                /\ (h.val >= 0) <=>
                       ~(has_hours /\ raw.kind \in {"num", "numstr"} /\ raw.val < 0)

\* a non-numeric string became 0 and a negative number stayed negative
C2_Witness ==
    /\ IsNormalized
    /\ \E i, j \in 1..Len(dispatches_df) :
          /\ has_hours
          /\ db[i].Hours.kind = "str"
          /\ dispatches_df[i].Hours = Float(0)
          /\ db[j].Hours = NumHours(-1)
          /\ dispatches_df[j].Hours.val < 0

\* C3: whatever malformed or missing CheckInDate and Hours values the rows
\* hold, the normalisation pass completes: no run ends in an exception
\* raised by it.
C3_NormalizationNeverErrors == ~(pc = "error" /\ error = "to_datetime")

\* C3, where it does hold: a null CheckInDate and any Hours value.
C3_HoldsWithoutBadDates ==
    (\A i \in 1..Len(db) : db[i].CheckInDate.kind # "bad")
        => ~(pc = "error" /\ error = "to_datetime")

TrendMonths == {monthly_data[i].month : i \in 1..Len(monthly_data)}

\* C4 as stated: the months of the trend table are exactly the months in
\* which at least one record has its CheckInDate.
C4_TrendMonthsArePresentMonths ==
    "trend" \in rendered => TrendMonths = RawMonths

\* C4 as amended: the trend table has exactly one row for every calendar
\* month from the month of the earliest dated record to the month of the
\* latest one, each with the number of records of that month, which is 0 for
\* a month the data skips; it has no row outside that range, and no row at
\* all when no record has a date.
C4_TrendMonthsAreTheRange ==
    "trend" \in rendered =>
        IF RawMonths = {} THEN monthly_data = << >>
        ELSE LET lo == CHOOSE m \in RawMonths : \A k \in RawMonths : m <= k
                 hi == CHOOSE m \in RawMonths : \A k \in RawMonths : k <= m
             IN  /\ Len(monthly_data) = hi - lo + 1
                 /\ \A i \in 1..Len(monthly_data) :
                       /\ monthly_data[i].month = lo + i - 1
                       /\ monthly_data[i].total_tickets =
                              Len(SelectSeq(RawDated,
                                  LAMBDA r : r.CheckInDate.month = lo + i - 1))

\* the data skips a month and the trend table has a row for it
C4_Witness ==
    /\ "trend" \in rendered
    /\ \E i \in 1..Len(monthly_data) :
          /\ monthly_data[i].total_tickets = 0
          /\ monthly_data[i].month \notin RawMonths

\* the mean a / b of the model's exact means, compared without division
SameRatio(mean, a, b) == mean.n > 0 /\ b > 0 /\ mean.sum * b = a * mean.n

RecordsOfSite(s) == SelectSeq(db, LAMBDA r : r.Site = s)

\* C5: for every site, siteMonthlyAverage(site) is the number of the site's
\* records divided by the number of distinct months the site appears in.
\* Read either with the dated records and calendar months only, or with
\* every record and every month key ('NaT' included).
C5_MeanOverTheSitesMonths ==
    "average" \in rendered =>
        \A s \in DOMAIN avg_tickets_by_site :
            LET all == RecordsOfSite(s)
                dated == SelectSeq(all, LAMBDA r : r.CheckInDate.kind = "date")
                months == {dated[i].CheckInDate.month : i \in 1..Len(dated)}
                keys == {RawMonthStr(all[i]) : i \in 1..Len(all)}
            IN  \/ months = {}
                \/ SameRatio(avg_tickets_by_site[s], Len(dated), Cardinality(months))
                \/ SameRatio(avg_tickets_by_site[s], Len(all), Cardinality(keys))

\* C5, where it does hold: tables with no null CheckInDate.
C5_HoldsWithoutNullDates ==
    ("average" \in rendered /\ ~HasNullDate) =>
        \A s \in DOMAIN avg_tickets_by_site :
            LET all == RecordsOfSite(s)
                months == {all[i].CheckInDate.month : i \in 1..Len(all)}
            IN  SameRatio(avg_tickets_by_site[s], Len(all), Cardinality(months))

\* the records the subtype breakdown is to count, for the selection made
BothNonNull ==
    SelectSeq(db, LAMBDA r :
        /\ r.Subtype # None
        /\ r.Item # None
        /\ \/ selected_breakdown_month_pie = AllTickets
           \/ RawMonthStr(r) = selected_breakdown_month_pie)

\* C6: for 'All Tickets' and for every single month, the per-subtype counts
\* sum to the number of records whose Subtype and Item are both non-null
\* (of the selected month in single-month mode).
C6_SubtypeCountsSumToNonNull ==
    "pie" \in rendered => SumCounts(data_to_chart_subtype) = Len(BothNonNull)

\* C6, where it does hold: tables with no null CheckInDate.
C6_HoldsWithoutNullDates ==
    ("pie" \in rendered /\ ~HasNullDate)
        => SumCounts(data_to_chart_subtype) = Len(BothNonNull)

\* C7: when the source returns no record the run raises no error, shows the
\* warning and nothing else, and executes no normalisation, aggregation,
\* selector or chart step.
C7_EmptySourceOnlyWarns ==
    (db = << >> /\ pc \notin {"start", "session"}) =>
        /\ pc \in {"fetched", "done"}
        /\ error = None
        /\ rendered = IF pc = "done" THEN {"warning"} ELSE {}
        /\ Blank
        /\ session_state.breakdown_month_selector.value = UnsetMonth
        /\ session_state.pie_month_selector.value = UnsetMonth
        /\ session_state.subtype_select_box.value = Unset

\* the run on an empty table has ended with the warning
C7_Witness == db = << >> /\ pc = "done" /\ rendered = {"warning"}

\* C8: the rows of monthlyTrend are in strictly increasing order of month.
C8_TrendStrictlyIncreasing ==
    "trend" \in rendered =>
        \A i, j \in 1..Len(monthly_data) :
            i < j => monthly_data[i].month < monthly_data[j].month

\* the table holds a later month before an earlier one, and the trend has
\* a row for each
C8_Witness ==
    /\ "trend" \in rendered
    /\ Len(monthly_data) >= 2
    /\ \E i, j \in 1..Len(db) :
          /\ i < j
          /\ db[i].CheckInDate.kind = "date"
          /\ db[j].CheckInDate.kind = "date"
          /\ db[i].CheckInDate.month > db[j].CheckInDate.month

C10_NoSiteDataUnreachable ==
    /\ "info_no_site_data" \notin rendered
    /\ (pc = "done" /\ selected_subtype \notin {AllSubtypes, Unset})
           => filtered_by_subtype # << >>

\* C10: a selected subtype other than 'All Subtypes' has at least one record
\* in the month-filtered data of the run, the "No site data found" message
\* is unreachable, and the counts of the site breakdown shown sum to the
\* subtype's count in the pie chart.
C10_SiteBreakdownMatchesPie ==
    /\ C10_NoSiteDataUnreachable
    /\ "site_breakdown" \in rendered
           => SumCounts(site_breakdown) = data_to_chart_subtype[selected_subtype]

====
